---- MODULE Spec2Model ----
(***************************************************************************)
(* Model of the named-instance registries ("multiton" classes) of          *)
(* pythonbytes.logbytes: Logger (logger.py) and Handler, StreamHandler,    *)
(* FileHandler, StdErrHandler (handler.py), with the level check           *)
(* _checkLevel and the module-wide weak-reference list _handlerList.       *)
(*                                                                         *)
(* A call cls(name, ...) is Python's type.__call__: first cls.__new__,     *)
(* then __init__ on the object __new__ returned.  Each thread runs one     *)
(* call at a time; pc[t] is its position and frame[t] its arguments and    *)
(* locals.  Steps are cut at the reads and writes of the shared            *)
(* dictionaries, so that threads interleave where the interpreter lets     *)
(* them.                                                                   *)
(***************************************************************************)
EXTENDS Integers, Sequences, FiniteSets, TLC

\* ---------------------------------------------------------------- bounds
NumThreads == 2
MaxOps == 3
MaxLevelInt == 50
MaxLogOps == 3

Threads == 1..NumThreads
NoThread == 0
Ids == 1..MaxOps
NoInst == 0

Kinds == {"logger", "base", "stream", "file", "stderr"}
SinkKinds == Kinds \ {"logger"}
Names == {"a", "b"}
Paths == {"ok", "bad"}
Targets == Paths \cup {"stdout", "stderr", "redir"}
\* the module's _lock and the _lock of each handler class
Locks == SinkKinds \cup {"module"}
RecLevels == {10, 40}
LogLevels == {20, 40}
NoLevel == 0 - 1

\* ------------------------------------------------------ level arguments
\* A level argument is a Python value: an int, a str, or something else.
IntLevel(n) == [ty |-> "int", n |-> n, s |-> ""]
StrLevel(s) == [ty |-> "str", n |-> 0, s |-> s]
OtherLevel == [ty |-> "other", n |-> 0, s |-> ""]

\* logging._nameToLevel
NameToLevel ==
  [CRITICAL |-> 50, FATAL |-> 50, ERROR |-> 40, WARN |-> 30,
   WARNING |-> 30, INFO |-> 20, DEBUG |-> 10, NOTSET |-> 0]

LevelOk(v) == [ok |-> TRUE, v |-> v, err |-> ""]
LevelErr(e) == [ok |-> FALSE, v |-> NoLevel, err |-> e]

\* _checkLevel with a range check on integers
_checkLevel_Range(level) ==
  IF level.ty = "int"
  THEN IF level.n >= 0 /\ level.n <= 50 THEN LevelOk(level.n)
       ELSE LevelErr("ValueError")
  ELSE IF level.ty = "str"
       THEN IF level.s \notin DOMAIN NameToLevel
            THEN LevelErr("ValueError")
            ELSE LevelOk(NameToLevel[level.s])
       ELSE LevelErr("ValueError")

\* _checkLevel falling back to NOTSET for a string it does not know
_checkLevel_Default(level) ==
  IF level.ty = "int" THEN LevelOk(level.n)
  ELSE IF level.ty = "str"
       THEN IF level.s \notin DOMAIN NameToLevel
            THEN LevelOk(0)
            ELSE LevelOk(NameToLevel[level.s])
       ELSE LevelErr("ValueError")

\* handler._checkLevel
_checkLevel(level) ==
  IF level.ty = "int" THEN LevelOk(level.n)
  ELSE IF level.ty = "str"
       THEN IF level.s \notin DOMAIN NameToLevel
            THEN LevelErr("ValueError")
            ELSE LevelOk(NameToLevel[level.s])
       ELSE LevelErr("ValueError")

\* logging.Logger.__init__(name, level) checks the level with the standard
\* library's own check: ValueError for an unknown name, TypeError otherwise.
LoggerCheckLevel(level) ==
  IF level.ty = "int" THEN LevelOk(level.n)
  ELSE IF level.ty = "str"
       THEN IF level.s \notin DOMAIN NameToLevel
            THEN LevelErr("ValueError")
            ELSE LevelOk(NameToLevel[level.s])
       ELSE LevelErr("TypeError")

\* level arguments the registry calls are made with
LevelArgs == {IntLevel(10), StrLevel("ERROR"), StrLevel("BOGUS"), OtherLevel}

\* inputs of the level check on its own
LevelInputs ==
  {IntLevel(n) : n \in (0 - MaxLevelInt)..MaxLevelInt}
    \cup {StrLevel(s) : s \in DOMAIN NameToLevel}
    \cup {StrLevel(s) : s \in {"BOGUS", "debug", "10", ""}}
    \cup {OtherLevel}

\* ----------------------------------------------------------------- state
VARIABLES
  instances,    \* cls._instances of every class: kind -> name -> instance
  obj,          \* the heap: instance id -> attributes
  handlerList,  \* handler._handlerList: weak references, in order
  lock,         \* cls._lock of every handler class: its owner
  files,        \* content of every target: the levels of the records written
  pc, frame,    \* per thread: position, and arguments and locals
  ops,          \* number of calls started
  refs,         \* instances the callers hold a reference to
  returned,     \* kind -> name -> instances returned since the last clear
  preClear,     \* kind -> instances created before the last clear
  cleared,      \* kind -> clearInstances has been called
  last,         \* the last completed call and its outcome
  focus,        \* the classes the callers of this run use
  heldAll,      \* the locks held at every change of a map or of _handlerList
  disposing,    \* weak references whose callback has started
  sysStderr,    \* the stream sys.stderr names
  lops,         \* number of addHandler and log calls made
  lvIn, lvOut, lvAgain, lvPc   \* _checkLevel on its own

vars == <<instances, obj, handlerList, lock, files, pc, frame, ops, refs,
          returned, preClear, cleared, last, focus, heldAll, disposing,
          sysStderr, lops, lvIn, lvOut, lvAgain, lvPc>>

regVars == <<instances, obj, handlerList, lock, files, pc, frame, ops, refs,
             returned, preClear, cleared, last, focus, heldAll, disposing,
             sysStderr, lops>>
auxVars == <<disposing, sysStderr, lops>>
lvVars == <<lvIn, lvOut, lvAgain, lvPc>>

NoObj ==
  [kind |-> "none", name |-> "", init |-> FALSE, level |-> NoLevel,
   closed |-> "unset", stream |-> "none", path |-> "", mode |-> "",
   delay |-> FALSE, handlers |-> <<>>, dlevel |-> NoLevel, dtarget |-> ""]

\* object.__new__(cls): an instance without any attribute
RawObj(k, n) == [NoObj EXCEPT !.kind = k, !.name = n]

NoMap == [n \in Names |-> NoInst]

IdleFrame ==
  [op |-> "none", kind |-> "none", name |-> "", lvl |-> OtherLevel,
   path |-> "", mode |-> "", delay |-> FALSE, inst |-> NoInst, opn |-> 0,
   pre |-> NoMap, rpc |-> "", id |-> NoInst, rl |-> 0, preObj |-> NoObj,
   preList |-> <<>>]

\* outcome of a call: the instance, exception, count or truth value it
\* returned, whether it wrote a record to its target, and the handlers a
\* logger's record was written by
NoOut ==
  [res |-> NoInst, err |-> "", cnt |-> 0, rv |-> FALSE, wrote |-> FALSE,
   to |-> {}]

NoLast == [f |-> IdleFrame, out |-> NoOut]

RegInit ==
  /\ instances = [k \in Kinds |-> NoMap]
  /\ obj = [i \in Ids |-> NoObj]
  /\ handlerList = <<>>
  /\ lock = [k \in SinkKinds |-> NoThread]
  /\ files = [p \in Targets |-> <<>>]
  /\ pc = [t \in Threads |-> "idle"]
  /\ frame = [t \in Threads |-> IdleFrame]
  /\ ops = 0
  /\ refs = {}
  /\ returned = [k \in Kinds |-> [n \in Names |-> {}]]
  /\ preClear = [k \in Kinds |-> {}]
  /\ cleared = [k \in Kinds |-> FALSE]
  /\ last = NoLast
  /\ heldAll = Locks
  /\ disposing = {}
  /\ sysStderr = "stderr"
  /\ lops = 0

LvIdle ==
  /\ lvIn = OtherLevel
  /\ lvOut = LevelErr("")
  /\ lvAgain = LevelErr("")
  /\ lvPc = "off"

\* a run exercises one class
Init == RegInit /\ LvIdle /\ focus \in {{k} : k \in Kinds}

\* --------------------------------------------------------------- helpers
\* a membership test that never finds the name
Has_Never(k, n) == FALSE

\* name in cls._instances
Has(k, n) == instances[k][n] # NoInst

\* the call of thread t ends with outcome o
Done(t, o) ==
  /\ pc' = [pc EXCEPT ![t] = "idle"]
  /\ frame' = [frame EXCEPT ![t] = IdleFrame]
  /\ last' = [f |-> frame[t], out |-> o]

\* cls(name, ...) returns instance r to its caller
Return(t, r) ==
  /\ Done(t, [NoOut EXCEPT !.res = r])
  /\ returned' = [returned EXCEPT ![frame[t].kind][frame[t].name] = @ \cup {r}]
  /\ refs' = refs \cup {r}

\* the call raises exception e
Raise(t, e) ==
  /\ Done(t, [NoOut EXCEPT !.err = e])
  /\ UNCHANGED <<returned, refs>>

Goto(t, p) == pc' = [pc EXCEPT ![t] = p]

\* ------------------------------------------------------- cls(name, ...)
Call(t, k, n, lv, p, m, d) ==
  /\ pc[t] = "idle"
  /\ ops < MaxOps
  /\ ops' = ops + 1
  /\ Goto(t, "new")
  /\ frame' = [frame EXCEPT ![t] =
       [IdleFrame EXCEPT !.op = "get", !.kind = k, !.name = n, !.lvl = lv,
                         !.path = p, !.mode = m, !.delay = d,
                         !.opn = ops + 1, !.pre = instances[k],
                         !.preObj = IF Has(k, n) THEN obj[instances[k][n]]
                                    ELSE NoObj,
                         !.preList = handlerList]]
  /\ UNCHANGED <<instances, obj, handlerList, lock, files, refs, returned,
                 preClear, cleared, last, focus, lvVars, auxVars, heldAll>>

\* filename, mode and delay of the FileHandler calls: the defaults with a
\* file that opens and with one that does not, and delayed opening
FileArgs ==
  {[path |-> "ok", mode |-> "a", delay |-> FALSE],
   [path |-> "bad", mode |-> "a", delay |-> FALSE],
   [path |-> "bad", mode |-> "a", delay |-> TRUE],
   [path |-> "ok", mode |-> "w", delay |-> TRUE]}

NoFileArgs == [path |-> "", mode |-> "", delay |-> FALSE]

GetOrCreate(t) ==
  \E k \in focus, n \in Names, lv \in LevelArgs :
    \E a \in IF k = "file" THEN FileArgs ELSE {NoFileArgs} :
      Call(t, k, n, lv, a.path, a.mode, a.delay)

\* ---------------------------------------------------------------- Logger
\* Logger.__new__ with an __init__ that lacks the check of lines 60-61:
\* the registered instance is initialised again
LoggerNew_Reinit(t) ==
  LET lv == LoggerCheckLevel(frame[t].lvl)
      i == instances["logger"][frame[t].name]
  IN
  /\ pc[t] = "new" /\ frame[t].kind = "logger"
  /\ IF Has("logger", frame[t].name)
     THEN IF lv.ok
          THEN /\ Return(t, i)
               /\ obj' = [obj EXCEPT ![i] =
                    [@ EXCEPT !.level = lv.v, !.handlers = <<>>,
                              !.dlevel = lv.v, !.dtarget = sysStderr]]
               /\ UNCHANGED instances
          ELSE /\ Raise(t, lv.err)
               /\ UNCHANGED <<instances, obj>>
     ELSE /\ Goto(t, "lg_init")
          /\ UNCHANGED <<frame, last, returned, refs, instances, obj>>
  /\ UNCHANGED <<handlerList, lock, files, ops, preClear, cleared, focus,
                 lvVars, auxVars, heldAll>>

\* Logger.__new__, lines 42-43: the check; no lock is taken
LoggerNew(t) ==
  /\ pc[t] = "new" /\ frame[t].kind = "logger"
  /\ IF Has("logger", frame[t].name)
     THEN \* __new__ returns the cached instance; __init__ returns at once
          /\ Return(t, instances["logger"][frame[t].name])
          /\ UNCHANGED <<instances, obj>>
     ELSE /\ Goto(t, "lg_init")
          /\ UNCHANGED <<frame, last, returned, refs, instances, obj>>
  /\ UNCHANGED <<handlerList, lock, files, ops, preClear, cleared, focus,
                 lvVars, auxVars, heldAll>>

\* Logger.__new__, lines 46-47: object.__new__, then instance.__init__
LoggerInit(t) ==
  LET f == frame[t]
      lv == LoggerCheckLevel(f.lvl)
  IN
  /\ pc[t] = "lg_init"
  /\ IF Has("logger", f.name)
     THEN \* another thread registered the name: __init__ returns at once
          /\ obj' = [obj EXCEPT ![f.opn] = RawObj("logger", f.name)]
          /\ frame' = [frame EXCEPT ![t].inst = f.opn]
          /\ Goto(t, "lg_store")
          /\ UNCHANGED <<last, returned, refs>>
     ELSE IF lv.ok
          THEN \* logging.Logger.__init__, then lines 67-71: the default
               \* handler, a logging.StreamHandler on what sys.stderr names
               /\ obj' = [obj EXCEPT ![f.opn] =
                    [RawObj("logger", f.name) EXCEPT
                       !.init = TRUE, !.level = lv.v, !.closed = "no",
                       !.dlevel = lv.v, !.dtarget = sysStderr]]
               /\ frame' = [frame EXCEPT ![t].inst = f.opn]
               /\ Goto(t, "lg_store")
               /\ UNCHANGED <<last, returned, refs>>
          ELSE /\ Raise(t, lv.err)
               /\ UNCHANGED obj
  /\ UNCHANGED <<instances, handlerList, lock, files, ops, preClear, cleared,
                 focus, lvVars, auxVars, heldAll>>

\* Logger.__new__, lines 48-49; then type.__call__ runs __init__, which
\* returns at line 61 because the name is now registered
LoggerStore(t) ==
  /\ pc[t] = "lg_store"
  /\ instances' = [instances EXCEPT !["logger"][frame[t].name] = frame[t].inst]
  /\ Return(t, frame[t].inst)
  /\ UNCHANGED <<obj, handlerList, lock, files, ops, preClear, cleared, focus,
                 lvVars, auxVars>>
  /\ heldAll' = heldAll \cap {}

\* --------------------------------------------------------------- Handler
\* Handler.__init__, lines 153-159, on object o with the checked level v
HandlerInitObj(o, v) ==
  [o EXCEPT !.init = TRUE, !.level = v, !.closed = "no"]

\* Handler.__new__ without the with statement of line 132: the check is
\* made whoever holds the lock
HandlerNew_NoLock(t) ==
  LET f == frame[t]
      lv == _checkLevel(f.lvl)
  IN
  /\ pc[t] = "new" /\ f.kind = "base"
  /\ IF Has("base", f.name)
     THEN \* line 139, and the lock is released
          /\ frame' = [frame EXCEPT ![t].inst = instances["base"][f.name]]
          /\ Goto(t, "init")
          /\ UNCHANGED <<obj, lock, last, returned, refs>>
     ELSE IF lv.ok
          THEN /\ obj' = [obj EXCEPT ![f.opn] =
                    HandlerInitObj(RawObj("base", f.name), lv.v)]
               /\ frame' = [frame EXCEPT ![t].inst = f.opn,
                                         ![t].rpc = "b_store"]
               /\ lock' = [lock EXCEPT !["base"] = t]
               /\ Goto(t, "b_addref")
               /\ UNCHANGED <<last, returned, refs>>
          ELSE \* _checkLevel raises; the with statement releases the lock
               /\ Raise(t, lv.err)
               /\ UNCHANGED <<obj, lock>>
  /\ UNCHANGED <<instances, handlerList, files, ops, preClear, cleared, focus,
                 lvVars, auxVars, heldAll>>

\* Handler.__new__, lines 132-136: under cls._lock, the check, then
\* object.__new__ and instance.__init__ up to the call of _addHandlerRef
HandlerNew(t) ==
  LET f == frame[t]
      lv == _checkLevel(f.lvl)
  IN
  /\ pc[t] = "new" /\ f.kind = "base"
  /\ lock["base"] = NoThread
  /\ IF Has("base", f.name)
     THEN \* line 139, and the lock is released
          /\ frame' = [frame EXCEPT ![t].inst = instances["base"][f.name]]
          /\ Goto(t, "init")
          /\ UNCHANGED <<obj, lock, last, returned, refs>>
     ELSE IF lv.ok
          THEN /\ obj' = [obj EXCEPT ![f.opn] =
                    HandlerInitObj(RawObj("base", f.name), lv.v)]
               /\ frame' = [frame EXCEPT ![t].inst = f.opn,
                                         ![t].rpc = "b_store"]
               /\ lock' = [lock EXCEPT !["base"] = t]
               /\ Goto(t, "b_addref")
               /\ UNCHANGED <<last, returned, refs>>
          ELSE \* _checkLevel raises; the with statement releases the lock
               /\ Raise(t, lv.err)
               /\ UNCHANGED <<obj, lock>>
  /\ UNCHANGED <<instances, handlerList, files, ops, preClear, cleared, focus,
                 lvVars, auxVars, heldAll>>

\* _addHandlerRef, called at line 162
_addHandlerRef(t) ==
  /\ pc[t] = "b_addref"
  /\ handlerList' = Append(handlerList, frame[t].inst)
  /\ IF frame[t].rpc = "b_store"
     THEN /\ Goto(t, "b_store")
          /\ UNCHANGED <<frame, last, returned, refs>>
     ELSE \* __init__ was run by type.__call__: the call returns
          Return(t, frame[t].inst)
  /\ UNCHANGED <<instances, obj, lock, files, ops, preClear, cleared, focus,
                 lvVars, auxVars>>
  /\ heldAll' = heldAll \cap
       ({"module"} \cup IF frame[t].rpc = "b_store" THEN {"base"} ELSE {})

\* Handler.__new__, lines 137-139, and the lock is released
HandlerStore(t) ==
  /\ pc[t] = "b_store"
  /\ instances' = [instances EXCEPT !["base"][frame[t].name] = frame[t].inst]
  /\ lock' = [lock EXCEPT !["base"] = NoThread]
  /\ Goto(t, "init")
  /\ UNCHANGED <<obj, handlerList, files, frame, ops, refs, returned,
                 preClear, cleared, last, focus, lvVars, auxVars>>
  /\ heldAll' = heldAll \cap {"base"}

\* Handler.__init__ as run by type.__call__ on what __new__ returned
HandlerInit(t) ==
  LET f == frame[t]
      lv == _checkLevel(f.lvl)
  IN
  /\ pc[t] = "init" /\ f.kind = "base"
  /\ IF Has("base", f.name)
     THEN \* line 150
          /\ Return(t, f.inst)
          /\ UNCHANGED obj
     ELSE IF lv.ok
          THEN /\ obj' = [obj EXCEPT ![f.inst] = HandlerInitObj(@, lv.v)]
               /\ frame' = [frame EXCEPT ![t].rpc = "ret"]
               /\ Goto(t, "b_addref")
               /\ UNCHANGED <<last, returned, refs>>
          ELSE /\ Raise(t, lv.err)
               /\ UNCHANGED obj
  /\ UNCHANGED <<instances, handlerList, lock, files, ops, preClear, cleared,
                 focus, lvVars, auxVars, heldAll>>

\* --------------------------------------------------------- StreamHandler
\* StreamHandler.__new__, lines 239-240: the check outside the lock
StreamNew(t) ==
  LET f == frame[t] IN
  /\ pc[t] = "new" /\ f.kind = "stream"
  /\ IF Has("stream", f.name)
     THEN /\ frame' = [frame EXCEPT ![t].inst = instances["stream"][f.name]]
          /\ Goto(t, "init")
     ELSE /\ Goto(t, "s_lock")
          /\ UNCHANGED frame
  /\ UNCHANGED <<instances, obj, handlerList, lock, files, ops, refs,
                 returned, preClear, cleared, last, focus, lvVars, auxVars,
                 heldAll>>

\* StreamHandler.__new__, lines 242-248: under cls._lock, the second check.
\* The local variable instance is bound only when the name is absent.
StreamNewLocked(t) ==
  LET f == frame[t] IN
  /\ pc[t] = "s_lock"
  /\ lock["stream"] = NoThread
  /\ IF ~Has("stream", f.name)
     THEN /\ obj' = [obj EXCEPT ![f.opn] = RawObj("stream", f.name)]
          /\ instances' = [instances EXCEPT !["stream"][f.name] = f.opn]
          /\ frame' = [frame EXCEPT ![t].inst = f.opn]
          /\ Goto(t, "init")
          /\ heldAll' = heldAll \cap {"stream"}
          /\ UNCHANGED <<last, returned, refs>>
     ELSE \* line 248 reads the unbound local
          /\ Raise(t, "UnboundLocalError")
          /\ UNCHANGED <<obj, instances, heldAll>>
  /\ UNCHANGED <<handlerList, lock, files, ops, preClear, cleared, focus,
                 lvVars, auxVars>>

\* logging.StreamHandler.__init__(stream), called at lines 266 and 388
StdStreamInitObj(o) ==
  [o EXCEPT !.init = TRUE, !.level = 0, !.closed = "no", !.stream = "open"]

\* StreamHandler.__init__, as run by type.__call__
StreamInit(t) ==
  LET f == frame[t]
      lv == _checkLevel(f.lvl)
  IN
  /\ pc[t] = "init" /\ f.kind = "stream"
  /\ IF Has("stream", f.name)
     THEN \* line 259
          /\ Return(t, f.inst)
          /\ UNCHANGED <<obj, instances, heldAll>>
     ELSE IF lv.ok
          THEN \* lines 266-270: no lock is held
               /\ obj' = [obj EXCEPT ![f.inst] =
                    [StdStreamInitObj(@) EXCEPT !.level = lv.v]]
               /\ instances' = [instances EXCEPT !["stream"][f.name] = f.inst]
               /\ heldAll' = heldAll \cap {}
               /\ Return(t, f.inst)
          ELSE /\ obj' = [obj EXCEPT ![f.inst] = StdStreamInitObj(@)]
               /\ Raise(t, lv.err)
               /\ UNCHANGED <<instances, heldAll>>
  /\ UNCHANGED <<handlerList, lock, files, ops, preClear, cleared, focus,
                 lvVars, auxVars>>

\* ----------------------------------------------------------- FileHandler
\* whether open(path, mode) succeeds
Openable(p) == p = "ok"

\* open(path, mode): mode "w" truncates the file
_open(fs, p, m) == IF m = "w" THEN [fs EXCEPT ![p] = <<>>] ELSE fs

\* FileHandler.__new__, lines 351-356; StdErrHandler.__new__, lines 472-477
PlainNew(t, k) ==
  LET f == frame[t] IN
  /\ pc[t] = "new" /\ f.kind = k
  /\ IF Has(k, f.name)
     THEN /\ frame' = [frame EXCEPT ![t].inst = instances[k][f.name]]
          /\ UNCHANGED obj
     ELSE /\ frame' = [frame EXCEPT ![t].inst = f.opn]
          /\ obj' = [obj EXCEPT ![f.opn] = RawObj(k, f.name)]
  /\ Goto(t, "init")
  /\ UNCHANGED <<instances, handlerList, lock, files, ops, refs, returned,
                 preClear, cleared, last, focus, lvVars, auxVars, heldAll>>

FileNew(t) ==
  /\ frame[t].kind = "file"
  /\ PlainNew(t, "file")

\* the instance of a call that raised is unreachable when the call made it
Discard(f) ==
  IF f.inst = f.opn THEN [obj EXCEPT ![f.inst] = NoObj] ELSE obj

\* the error of open() caught and dropped
FileOpenFails_Never(f) == FALSE

\* line 388: logging.FileHandler.__init__ opens the file unless delay is
\* set, and the error of open() is not caught
FileOpenFails(f) == ~f.delay /\ ~Openable(f.path)

\* FileHandler.__init__, lines 374-391, as run by type.__call__
FileInit(t) ==
  LET f == frame[t]
      lv == _checkLevel(f.lvl)
  IN
  /\ pc[t] = "init" /\ f.kind = "file"
  /\ IF Has("file", f.name)
     THEN \* line 374
          /\ Return(t, f.inst)
          /\ UNCHANGED <<obj, files>>
     ELSE IF FileOpenFails(f)
          THEN /\ Raise(t, "OSError")
               /\ obj' = Discard(f)
               /\ UNCHANGED files
          ELSE /\ files' = IF f.delay THEN files
                           ELSE _open(files, f.path, f.mode)
               /\ IF lv.ok
                  THEN /\ obj' = [obj EXCEPT ![f.inst] =
                            [StdStreamInitObj(@) EXCEPT
                               !.stream = IF f.delay THEN "none" ELSE "open",
                               !.path = f.path, !.mode = f.mode,
                               !.delay = f.delay, !.level = lv.v]]
                       /\ Goto(t, "f_store")
                       /\ UNCHANGED <<frame, last, returned, refs>>
                  ELSE \* line 391
                       /\ Raise(t, lv.err)
                       /\ obj' = Discard(f)
  /\ UNCHANGED <<instances, handlerList, lock, ops, preClear, cleared, focus,
                 lvVars, auxVars, heldAll>>

\* FileHandler.__init__, lines 392-393
FileStore(t) ==
  /\ pc[t] = "f_store"
  /\ instances' = [instances EXCEPT !["file"][frame[t].name] = frame[t].inst]
  /\ Return(t, frame[t].inst)
  /\ UNCHANGED <<obj, handlerList, lock, files, ops, preClear, cleared, focus,
                 lvVars, auxVars>>
  /\ heldAll' = heldAll \cap {}

\* --------------------------------------------------------- StdErrHandler
StdErrNew(t) ==
  /\ frame[t].kind = "stderr"
  /\ PlainNew(t, "stderr")

\* StdErrHandler.__init__, lines 488-491.  logging.StreamHandler.__init__
\* assigns self.stream, which StdErrHandler declares as a property without
\* a setter (line 516): the assignment raises AttributeError, and lines
\* 493-497 are never reached.
StdErrInit(t) ==
  LET f == frame[t] IN
  /\ pc[t] = "init" /\ f.kind = "stderr"
  /\ IF Has("stderr", f.name)
     THEN /\ Return(t, f.inst)
          /\ UNCHANGED obj
     ELSE /\ Raise(t, "AttributeError")
          /\ obj' = Discard(f)
  /\ UNCHANGED <<instances, handlerList, lock, files, ops, preClear, cleared,
                 focus, lvVars, auxVars, heldAll>>

\* ------------------------------------------- clearInstances, countInstances
\* a call that is one step: its frame goes straight to last
Step1(t, f, o) ==
  /\ pc[t] = "idle"
  /\ ops < MaxOps
  /\ ops' = ops + 1
  /\ last' = [f |-> [f EXCEPT !.opn = ops + 1], out |-> o]
  /\ UNCHANGED <<pc, frame>>

\* clearInstances that empties _handlerList only
clearInstances_KeepMap(t, k) ==
  /\ lock[k] = NoThread
  /\ Step1(t, [IdleFrame EXCEPT !.op = "clear", !.kind = k,
                                !.pre = instances[k]], NoOut)
  /\ handlerList' = <<>>
  /\ returned' = [returned EXCEPT ![k] = [n \in Names |-> {}]]
  /\ preClear' = [preClear EXCEPT ![k] = {i \in Ids : obj[i].kind = k}]
  /\ cleared' = [cleared EXCEPT ![k] = TRUE]
  /\ UNCHANGED <<instances, obj, lock, files, refs, focus, lvVars, auxVars>>
  /\ heldAll' = heldAll \cap {k}

\* Handler.clearInstances, lines 204-207, and the same method of
\* StreamHandler (308-311), FileHandler (437-440), StdErrHandler (543-546)
clearInstances(t, k) ==
  /\ lock[k] = NoThread
  /\ Step1(t, [IdleFrame EXCEPT !.op = "clear", !.kind = k,
                                !.pre = instances[k]], NoOut)
  /\ instances' = [instances EXCEPT ![k] = NoMap]
  /\ handlerList' = <<>>
  /\ returned' = [returned EXCEPT ![k] = [n \in Names |-> {}]]
  /\ preClear' = [preClear EXCEPT ![k] = {i \in Ids : obj[i].kind = k}]
  /\ cleared' = [cleared EXCEPT ![k] = TRUE]
  /\ UNCHANGED <<obj, lock, files, refs, focus, lvVars, auxVars>>
  /\ heldAll' = heldAll \cap {k}

Clear(t) == \E k \in SinkKinds \cap focus : clearInstances(t, k)

\* the length of _handlerList instead
MapLen_List(k) == Len(handlerList)

\* len(cls._instances)
MapLen(k) == Cardinality({n \in Names : Has(k, n)})

\* Handler.countInstances, lines 214-215, and the same method of
\* StreamHandler (321-322), FileHandler (450-451), StdErrHandler (556-557)
countInstances(t, k) ==
  /\ lock[k] = NoThread
  /\ Step1(t, [IdleFrame EXCEPT !.op = "count", !.kind = k,
                                !.pre = instances[k]],
           [NoOut EXCEPT !.cnt = MapLen(k)])
  /\ UNCHANGED <<instances, obj, handlerList, lock, files, refs, returned,
                 preClear, cleared, focus, lvVars, auxVars, heldAll>>

Count(t) == \E k \in SinkKinds \cap focus : countInstances(t, k)

\* ------------------------------------------------------ __call__ and close
\* the target an instance writes to
TargetOf(o) ==
  IF o.kind = "file" THEN o.path
  ELSE IF o.kind = "stderr" THEN sysStderr ELSE "stdout"

\* whether FileHandler.emit opens the file first: no stream, and the mode
\* is not "w" or the handler is not closed
Reopens(o) ==
  o.kind = "file" /\ o.stream = "none" /\ (o.mode # "w" \/ o.closed # "yes")

\* self.handle(record) of logging.Handler: filter (no filter is attached),
\* then emit under the handler's lock; the level is not compared.
\* Gives the outcome of handle on instance o, and o and the files after it.
handle(o, rl, fs) ==
  IF ~o.init
  THEN \* Filterer.__init__ never ran: self.filters is missing
       [out |-> [NoOut EXCEPT !.err = "AttributeError"], o |-> o, fs |-> fs]
  ELSE IF o.kind = "base"
  THEN \* logging.Handler.emit
       [out |-> [NoOut EXCEPT !.err = "NotImplementedError"], o |-> o,
        fs |-> fs]
  ELSE IF Reopens(o) /\ ~Openable(o.path)
  THEN [out |-> [NoOut EXCEPT !.err = "OSError"], o |-> o, fs |-> fs]
  ELSE IF o.kind = "file" /\ o.stream = "none" /\ ~Reopens(o)
  THEN \* mode "w" and closed: the record is dropped
       [out |-> [NoOut EXCEPT !.rv = TRUE], o |-> o, fs |-> fs]
  ELSE LET fs1 == IF Reopens(o) THEN _open(fs, o.path, o.mode) ELSE fs
       IN [out |-> [NoOut EXCEPT !.rv = TRUE, !.wrote = TRUE],
           o |-> [o EXCEPT !.stream = "open"],
           fs |-> [fs1 EXCEPT ![TargetOf(o)] = Append(@, rl)]]

\* Handler.__call__ (line 181), StreamHandler.__call__ (286),
\* FileHandler.__call__ (409), StdErrHandler.__call__ (513)
Emit(t) ==
  \E i \in refs, rl \in RecLevels :
    LET h == handle(obj[i], rl, files) IN
    /\ obj[i].kind \in SinkKinds
    /\ Step1(t, [IdleFrame EXCEPT !.op = "emit", !.kind = obj[i].kind,
                                  !.name = obj[i].name, !.id = i, !.rl = rl],
             h.out)
    /\ obj' = [obj EXCEPT ![i] = h.o]
    /\ files' = h.fs
    /\ UNCHANGED <<instances, handlerList, lock, refs, returned, preClear,
                   cleared, focus, lvVars, auxVars, heldAll>>

\* close() of the base classes: logging.Handler.close sets _closed and then
\* reads _name; logging.FileHandler.close takes the handler's lock first,
\* closes the stream and sets it to None.
close(o) ==
  IF o.kind = "file"
  THEN IF o.init
       THEN [out |-> NoOut, o |-> [o EXCEPT !.stream = "none", !.closed = "yes"]]
       ELSE [out |-> [NoOut EXCEPT !.err = "AttributeError"], o |-> o]
  ELSE IF o.init
       THEN [out |-> NoOut, o |-> [o EXCEPT !.closed = "yes"]]
       ELSE [out |-> [NoOut EXCEPT !.err = "AttributeError"],
             o |-> [o EXCEPT !.closed = "yes"]]

Close(t) ==
  \E i \in refs :
    LET c == close(obj[i]) IN
    /\ obj[i].kind \in SinkKinds
    /\ Step1(t, [IdleFrame EXCEPT !.op = "close", !.kind = obj[i].kind,
                                  !.name = obj[i].name, !.id = i], c.out)
    /\ obj' = [obj EXCEPT ![i] = c.o]
    /\ UNCHANGED <<instances, handlerList, lock, files, refs, returned,
                   preClear, cleared, focus, lvVars, auxVars, heldAll>>

\* sys.stderr is bound to another stream, as contextlib.redirect_stderr
\* does; StdErrHandler.stream, lines 516-523, reads sys.stderr at each use
Redirect(t) ==
  /\ pc[t] = "idle"
  /\ "stderr" \in focus
  /\ sysStderr' = IF sysStderr = "stderr" THEN "redir" ELSE "stderr"
  /\ UNCHANGED <<instances, obj, handlerList, lock, files, pc, frame, ops,
                 refs, returned, preClear, cleared, last, focus, lvVars,
                 disposing, lops, heldAll>>

\* ------------------------------------------------- references and disposal
InSeq(x, q) == \E j \in 1..Len(q) : q[j] = x

\* instance i is strongly referenced: by a caller, by a map, by a call in
\* progress or by the handler list of a logger
Reachable(i) ==
  \/ i \in refs
  \/ \E k \in Kinds, n \in Names : instances[k][n] = i
  \/ \E t \in Threads : frame[t].inst = i
  \/ \E j \in Ids : InSeq(i, obj[j].handlers)

Alive(i) == obj[i].kind \in Kinds

DeadObj == [NoObj EXCEPT !.kind = "dead"]

\* a caller drops its reference to an instance
DropRef(t) ==
  \E i \in refs :
    /\ pc[t] = "idle"
    /\ refs' = refs \ {i}
    /\ UNCHANGED <<instances, obj, handlerList, lock, files, pc, frame, ops,
                   returned, preClear, cleared, last, focus, lvVars, auxVars,
                   heldAll>>

\* an instance nothing refers to is deallocated; line 83: if its weak
\* reference still exists, that is, is still in _handlerList, its callback
\* _removeHandlerRef is called with it
Dispose(i) ==
  /\ Alive(i) /\ ~Reachable(i)
  /\ obj' = [obj EXCEPT ![i] = DeadObj]
  /\ disposing' = IF InSeq(i, handlerList) THEN disposing \cup {i}
                  ELSE disposing
  /\ UNCHANGED <<instances, handlerList, lock, files, pc, frame, ops, refs,
                 returned, preClear, cleared, last, focus, lvVars, sysStderr,
                 lops, heldAll>>

RECURSIVE RemoveFirst(_, _)
\* list.remove(x): the list without the first element equal to x
RemoveFirst(q, x) ==
  IF q = <<>> THEN q
  ELSE IF Head(q) = x THEN Tail(q)
  ELSE <<Head(q)>> \o RemoveFirst(Tail(q), x)

\* a callback that removes every reference and raises when r is absent
_removeHandlerRef_Clear(hl, r) ==
  IF InSeq(r, hl) THEN [hl |-> <<>>, err |-> ""]
  ELSE [hl |-> hl, err |-> "ValueError"]

\* _removeHandlerRef, lines 66-72, on the list hl: under the module's
\* _lock, _handlerList.remove(weakref_ref), and ValueError is passed over
_removeHandlerRef(hl, r) == [hl |-> RemoveFirst(hl, r), err |-> ""]

\* the callback of the weak reference to instance i runs
RemoveHandlerRef(i) ==
  LET r == _removeHandlerRef(handlerList, i) IN
  /\ i \in disposing
  /\ disposing' = disposing \ {i}
  /\ handlerList' = r.hl
  /\ last' = [f |-> [IdleFrame EXCEPT !.op = "dispose", !.kind = "base",
                                      !.id = i, !.opn = ops],
              out |-> [NoOut EXCEPT !.err = r.err,
                                    !.wrote = InSeq(i, handlerList)]]
  /\ heldAll' = IF InSeq(i, handlerList) THEN heldAll \cap {"module"}
                ELSE heldAll
  /\ UNCHANGED <<instances, obj, lock, files, pc, frame, ops, refs, returned,
                 preClear, cleared, focus, lvVars, sysStderr, lops>>

\* ------------------------------------------- Logger.addHandler, Logger.log
\* Logger defines neither: both are inherited from logging.Logger.
\* a call on a logger that is one step
LogStep(t, f, o) ==
  /\ pc[t] = "idle"
  /\ lops < MaxLogOps
  /\ lops' = lops + 1
  /\ last' = [f |-> [f EXCEPT !.opn = ops], out |-> o]
  /\ UNCHANGED <<pc, frame, ops>>

\* logging.Logger.addHandler(hdlr): appended unless already in the list
addHandler(lg, h) ==
  IF ~lg.init
  THEN [out |-> [NoOut EXCEPT !.err = "AttributeError"], o |-> lg]
  ELSE [out |-> NoOut,
        o |-> IF InSeq(h, lg.handlers) THEN lg
              ELSE [lg EXCEPT !.handlers = Append(@, h)]]

AddHandler(t) ==
  \E i \in refs, h \in refs :
    LET a == addHandler(obj[i], h) IN
    /\ obj[i].kind = "logger" /\ obj[h].kind \in SinkKinds
    /\ LogStep(t, [IdleFrame EXCEPT !.op = "attach", !.kind = "logger",
                                    !.name = obj[i].name, !.id = i, !.inst = h],
               a.out)
    /\ obj' = [obj EXCEPT ![i] = a.o]
    /\ UNCHANGED <<instances, handlerList, lock, files, refs, returned,
                   preClear, cleared, focus, lvVars, disposing, sysStderr,
                   heldAll>>

\* logging.Logger.callHandlers over the attached handlers hs, in order.
\* st is the result so far: the heap, the files, the handlers that wrote,
\* and the exception that ended the loop.  A handler is called when the
\* record's level is at least hdlr.level; what it raises is not caught.
RECURSIVE callHandlers(_, _, _)
callHandlers(hs, rl, st) ==
  IF hs = <<>> \/ st.err # "" THEN st
  ELSE LET h == Head(hs)
           o == st.o[h]
           r == handle(o, rl, st.fs)
       IN IF o.level = NoLevel
          THEN \* __init__ never ran: the instance has no attribute level
               [st EXCEPT !.err = "AttributeError"]
          ELSE IF rl < o.level
          THEN callHandlers(Tail(hs), rl, st)
          ELSE callHandlers(Tail(hs), rl,
                 [o |-> [st.o EXCEPT ![h] = r.o], fs |-> r.fs,
                  to |-> IF r.out.wrote THEN st.to \cup {h} ELSE st.to,
                  err |-> r.out.err])

\* log without the check of the logger's own level
log_AlwaysEnabled(i, rl, os, fs) ==
  LET lg == os[i]
      dflt == lg.dlevel # NoLevel /\ rl >= lg.dlevel
      st0 == [o |-> os,
              fs |-> IF dflt THEN [fs EXCEPT ![lg.dtarget] = Append(@, rl)]
                     ELSE fs,
              to |-> IF dflt THEN {i} ELSE {},
              err |-> ""]
  IN IF ~lg.init THEN [o |-> os, fs |-> fs, to |-> {}, err |-> "AttributeError"]
     ELSE callHandlers(lg.handlers, rl, st0)

\* logging.Logger.log(level, msg) on logger i: isEnabledFor(level), then
\* callHandlers.  The default handler made at lines 68-70 comes first; its
\* emit catches what the write raises.  The call returns None.
log(i, rl, os, fs) ==
  LET lg == os[i]
      dflt == lg.dlevel # NoLevel /\ rl >= lg.dlevel
      st0 == [o |-> os,
              fs |-> IF dflt THEN [fs EXCEPT ![lg.dtarget] = Append(@, rl)]
                     ELSE fs,
              to |-> IF dflt THEN {i} ELSE {},
              err |-> ""]
  IN IF ~lg.init THEN [o |-> os, fs |-> fs, to |-> {}, err |-> "AttributeError"]
     ELSE IF rl < lg.level THEN [o |-> os, fs |-> fs, to |-> {}, err |-> ""]
     ELSE callHandlers(lg.handlers, rl, st0)

Log(t) ==
  \E i \in refs, rl \in LogLevels :
    LET r == log(i, rl, obj, files) IN
    /\ obj[i].kind = "logger"
    /\ LogStep(t, [IdleFrame EXCEPT !.op = "log", !.kind = "logger",
                                    !.name = obj[i].name, !.id = i, !.rl = rl],
               [NoOut EXCEPT !.err = r.err, !.to = r.to])
    /\ obj' = r.o
    /\ files' = r.fs
    /\ UNCHANGED <<instances, handlerList, lock, refs, returned, preClear,
                   cleared, focus, lvVars, disposing, sysStderr, heldAll>>

\* ------------------------------------------------------- specifications
\* a call in progress takes its next step
Run(t) ==
  \/ LoggerNew(t) \/ LoggerInit(t) \/ LoggerStore(t)
  \/ HandlerNew(t) \/ _addHandlerRef(t) \/ HandlerStore(t) \/ HandlerInit(t)
  \/ StreamNew(t) \/ StreamNewLocked(t) \/ StreamInit(t)
  \/ FileNew(t) \/ FileInit(t) \/ FileStore(t)
  \/ StdErrNew(t) \/ StdErrInit(t)

\* threads interleave freely
Next ==
  \E t \in Threads :
    \/ GetOrCreate(t) \/ Clear(t) \/ Count(t) \/ Emit(t) \/ Close(t)
    \/ Redirect(t)
    \/ Run(t)

Spec == Init /\ [][Next]_vars

\* sequential histories: a call starts only when no call is running
Quiet == \A u \in Threads : pc[u] = "idle"

SeqNext ==
  \E t \in Threads :
    \/ Quiet /\ GetOrCreate(t)
    \/ Quiet /\ Clear(t)
    \/ Quiet /\ Count(t)
    \/ Quiet /\ Emit(t)
    \/ Quiet /\ Close(t)
    \/ Quiet /\ Redirect(t)
    \/ Run(t)

SeqSpec == Init /\ [][SeqNext]_vars

\* the base class Handler with callers that drop their references
GcInit == RegInit /\ LvIdle /\ focus = {"base"}

GcNext ==
  \/ \E t \in Threads :
       \/ GetOrCreate(t) \/ Clear(t) \/ Count(t) \/ DropRef(t)
       \/ HandlerNew(t) \/ _addHandlerRef(t) \/ HandlerStore(t)
       \/ HandlerInit(t)
  \/ \E i \in Ids : Dispose(i) \/ RemoveHandlerRef(i)

GcSpec == GcInit /\ [][GcNext]_vars

\* the classes Handler and FileHandler used side by side, in sequential
\* histories: both share the module's _handlerList
PairInit == RegInit /\ LvIdle /\ focus = {"base", "file"}

PairNext ==
  \E t \in Threads :
    \/ Quiet /\ GetOrCreate(t)
    \/ Quiet /\ Clear(t)
    \/ Quiet /\ Count(t)
    \/ HandlerNew(t) \/ _addHandlerRef(t) \/ HandlerStore(t)
    \/ HandlerInit(t)
    \/ FileNew(t) \/ FileInit(t) \/ FileStore(t)

PairSpec == PairInit /\ [][PairNext]_vars

\* a logger and the handlers of one class attached to it, in sequential
\* histories
LoggerLevelArgs == {StrLevel("WARNING"), IntLevel(10), StrLevel("BOGUS")}
SinkLevelArgs == {IntLevel(10), StrLevel("ERROR"), StrLevel("BOGUS")}
LogFileArgs ==
  {[path |-> "ok", mode |-> "a", delay |-> FALSE],
   [path |-> "bad", mode |-> "a", delay |-> TRUE]}

LogGetOrCreate(t) ==
  \E k \in focus, n \in Names :
    \E lv \in IF k = "logger" THEN LoggerLevelArgs ELSE SinkLevelArgs,
       a \in IF k = "file" THEN LogFileArgs ELSE {NoFileArgs} :
      Call(t, k, n, lv, a.path, a.mode, a.delay)

LogInit ==
  RegInit /\ LvIdle /\ focus \in {{"logger", k} : k \in SinkKinds}

LogNext ==
  \E t \in Threads :
    \/ Quiet /\ LogGetOrCreate(t)
    \/ Quiet /\ AddHandler(t)
    \/ Quiet /\ Log(t)
    \/ Run(t)

LogSpec == LogInit /\ [][LogNext]_vars

\* _checkLevel on its own: every input, checked once, and its result again
LvInit ==
  /\ RegInit
  /\ focus = {}
  /\ lvIn \in LevelInputs
  /\ lvOut = LevelErr("")
  /\ lvAgain = LevelErr("")
  /\ lvPc = "in"

Normalize ==
  /\ lvPc = "in"
  /\ lvOut' = _checkLevel(lvIn)
  /\ lvPc' = "once"
  /\ UNCHANGED <<lvIn, lvAgain, regVars>>

NormalizeAgain ==
  /\ lvPc = "once"
  /\ lvOut.ok
  /\ lvAgain' = _checkLevel(IntLevel(lvOut.v))
  /\ lvPc' = "twice"
  /\ UNCHANGED <<lvIn, lvOut, regVars>>

LvNext == Normalize \/ NormalizeAgain

LevelSpec == LvInit /\ [][LvNext]_vars

\* ================================================================ claims
\* no call has started since the call recorded in last completed
Fresh == ops = last.f.opn

\* the names of kind k that a call has returned an instance for since the
\* last clearInstances
NamesGot(k) == {n \in Names : returned[k][n] # {}}

\* ----------------------------------------------------------------- C1
\* C1, as stated: on a registry that was never cleared, all calls of
\* cls(name, ...) for one class and name, from any threads, return the same
\* instance.
C1_OneInstancePerName ==
  \A k \in Kinds, n \in Names :
    ~cleared[k] => Cardinality(returned[k][n]) <= 1

\* ----------------------------------------------------------------- C2
\* C2: in a sequential history, all calls for one class and name since the
\* last clearInstances of the class returned one and the same instance, and
\* it is the instance registered under the name.
C2_SameInstanceUntilClear ==
  \A k \in Kinds, n \in Names :
    /\ Cardinality(returned[k][n]) <= 1
    /\ returned[k][n] \subseteq {instances[k][n]}

\* a second call for a registered name has returned the registered instance
C2_Witness ==
  /\ last.f.op = "get"
  /\ last.f.pre[last.f.name] # NoInst
  /\ last.out.res = last.f.pre[last.f.name]
  /\ Fresh

\* ----------------------------------------------------------------- C3
\* C3: after clearInstances of a class, no call of the class returns an
\* instance created before the clear, and the first call for a name makes
\* a new object.
C3_FreshAfterClear ==
  /\ \A k \in SinkKinds, n \in Names : returned[k][n] \cap preClear[k] = {}
  /\ (/\ last.f.op = "get" /\ last.f.kind \in SinkKinds
      /\ cleared[last.f.kind]
      /\ last.f.pre[last.f.name] = NoInst
      /\ last.out.err = "")
     => (last.out.res = last.f.opn /\ last.out.res \notin preClear[last.f.kind])

\* a name registered before the clear was asked for again after it
C3_Witness ==
  /\ last.f.op = "get" /\ last.out.err = ""
  /\ cleared[last.f.kind]
  /\ \E i \in preClear[last.f.kind] :
       obj[i].name = last.f.name /\ i # last.out.res

\* ----------------------------------------------------------------- C4
\* C4: in a sequential history, countInstances returns the number of names
\* that a call has returned an instance for since the last clearInstances,
\* the map has that many entries between calls, and none after a clear.
C4_CountIsNamesGot ==
  /\ last.f.op = "count" => last.out.cnt = Cardinality(NamesGot(last.f.kind))
  /\ Quiet => \A k \in SinkKinds : MapLen(k) = Cardinality(NamesGot(k))
  /\ (last.f.op = "clear" /\ Fresh) => MapLen(last.f.kind) = 0

\* two names were registered and countInstances returned 2
C4_Witness == last.f.op = "count" /\ last.out.cnt = 2

\* ----------------------------------------------------------------- C5
\* the valid inputs of the level check: an integer, or a name of the table
ValidLevel(x) ==
  x.ty = "int" \/ (x.ty = "str" /\ x.s \in DOMAIN NameToLevel)

\* C5: _checkLevel of a valid input is an integer, an integer input comes
\* back unchanged, and checking the result again gives the same result.
C5_Idempotent ==
  /\ (lvPc \in {"once", "twice"} /\ ValidLevel(lvIn))
       => /\ lvOut.ok /\ lvOut.v \in Int
          /\ lvIn.ty = "int" => lvOut.v = lvIn.n
  /\ lvPc = "twice" => lvAgain = lvOut

\* a symbolic name was checked, and its result checked again
C5_Witness ==
  lvPc = "twice" /\ lvIn = StrLevel("WARNING") /\ lvAgain = LevelOk(30)

\* ----------------------------------------------------------------- C6
\* C6: _checkLevel returns a value for the valid inputs only; every other
\* string and every input of another type raises ValueError.
C6_RejectsInvalid ==
  lvPc \in {"once", "twice"}
    => /\ lvOut.ok <=> ValidLevel(lvIn)
       /\ ~ValidLevel(lvIn) => lvOut.err = "ValueError"

\* an input that is neither an integer nor a string was rejected
C6_Witness == lvPc = "once" /\ lvIn.ty = "other" /\ lvOut.err = "ValueError"

\* ----------------------------------------------------------------- C7
\* C7, as stated: a call of a handler class for an unregistered name with
\* an invalid level raises the invalid-level error and leaves the map of
\* the class as it was.  Stated for the calls in which the level is the
\* only fault: the file opens, and the class is not StdErrHandler, whose
\* calls all raise before the level is looked at.
C7_InvalidLevelRaises ==
  (/\ last.f.op = "get" /\ last.f.kind \in SinkKinds \ {"stderr"}
   /\ last.f.pre[last.f.name] = NoInst
   /\ ~_checkLevel(last.f.lvl).ok
   /\ last.f.kind = "file" => ~FileOpenFails(last.f)
   /\ Fresh)
  => (last.out.err = "ValueError" /\ instances[last.f.kind] = last.f.pre)

C9_ClosedRejectsEmit ==
  (last.f.op = "emit" /\ obj[last.f.id].closed = "yes")
  => (last.out.err # "" /\ ~last.out.wrote /\ obj[last.f.id].stream # "open")

\* ---------------------------------------------------------------- C10
\* C10, as stated: calling an instance on a record below the instance's
\* level writes nothing and returns false.
C10_BelowLevelFiltered ==
  (/\ last.f.op = "emit" /\ last.out.err = ""
   /\ last.f.rl < obj[last.f.id].level)
  => (~last.out.wrote /\ ~last.out.rv)

\* ---------------------------------------------------------------- C11
\* whether calling handler o on a record of level rl raises
EmitFails(o, rl) == handle(o, rl, files).out.err # ""

\* C11, as stated: when a logger passes a record to its attached handlers
\* and the call of one of them fails, the log call raises nothing and every
\* attached handler that takes the level and does not fail has written the
\* record.  Stated for a logger with two or more FileHandler instances
\* attached; the one whose file cannot be opened fails.
C11_FailingSinkDoesNotAbort ==
  (/\ last.f.op = "log" /\ obj[last.f.id].init
   /\ last.f.rl >= obj[last.f.id].level
   /\ Len(obj[last.f.id].handlers) >= 2
   /\ \A j \in 1..Len(obj[last.f.id].handlers) :
        obj[obj[last.f.id].handlers[j]].kind = "file")
  => /\ last.out.err = ""
     /\ \A j \in 1..Len(obj[last.f.id].handlers) :
          LET h == obj[last.f.id].handlers[j] IN
          (/\ obj[h].level # NoLevel /\ last.f.rl >= obj[h].level
           /\ ~EmitFails(obj[h], last.f.rl))
          => h \in last.out.to

\* ---------------------------------------------------------------- C12
\* logger lg has level WARNING and exactly the handlers d, at level DEBUG,
\* and e, at level ERROR, both with their file open
ScenarioC(lg, d, e) ==
  /\ obj[lg].kind = "logger" /\ obj[lg].init /\ obj[lg].level = 30
  /\ obj[lg].handlers \in {<<d, e>>, <<e, d>>}
  /\ obj[d].level = 10 /\ obj[e].level = 40
  /\ obj[d].stream = "open" /\ obj[e].stream = "open"

DisposalDone == disposing = {} /\ \A i \in Ids : Alive(i) => Reachable(i)

\* C13, as stated: when a registered instance was returned to its callers,
\* the callers have dropped every reference to it, clearInstances was
\* never called and disposal has run to its end, the instance is still
\* registered under its name and its weak reference is no longer in
\* _handlerList.
C13_DroppedHandleRemoved ==
  \A n \in Names :
    LET i == instances["base"][n] IN
    (/\ i # NoInst /\ i \in returned["base"][n] /\ i \notin refs
     /\ \A t \in Threads : frame[t].inst # i
     /\ ~cleared["base"] /\ DisposalDone)
    => (Alive(i) /\ ~InSeq(i, handlerList))

\* ---------------------------------------------------------------- C20
\* C20: a step of the callback _removeHandlerRef for instance i raises
\* nothing, leaves every map as it was, takes out of _handlerList at most
\* one reference, that of i, and nothing when i has none there; the
\* disposal of an instance leaves every map as it was; and a name leaves
\* the map of class Handler, or changes its instance, only in a step of
\* clearInstances.
C20_DisposalFrame ==
  [][/\ \A i \in disposing \ disposing' :
          /\ instances' = instances
          /\ last'.out.err = ""
          /\ Len(handlerList') >= Len(handlerList) - 1
          /\ \A j \in Ids \ {i} :
               InSeq(j, handlerList) => InSeq(j, handlerList')
          /\ ~InSeq(i, handlerList) => handlerList' = handlerList
          /\ ~InSeq(i, handlerList')
     /\ (\E i \in Ids : obj[i].kind # "dead" /\ obj'[i].kind = "dead")
          => instances' = instances
     /\ \A n \in Names :
          (/\ instances["base"][n] # NoInst
           /\ instances'["base"][n] # instances["base"][n])
          => (last'.f.op = "clear" /\ cleared'["base"])
    ]_vars

\* the callback has taken the reference of a disposed instance out of
\* _handlerList and left the reference of another instance in it
C20_Witness ==
  /\ last.f.op = "dispose" /\ last.out.wrote
  /\ \E j \in Ids : j # last.f.id /\ InSeq(j, handlerList)

\* ---------------------------------------------------------------- C14
\* C14, as stated: a call of StdErrHandler for an unregistered name with a
\* valid level returns a new, initialised instance and registers it, and
\* every StdErrHandler instance writes to the stream that sys.stderr names
\* at the time of the call.
C14_StdErrSinkCreated ==
  /\ (/\ last.f.op = "get" /\ last.f.kind = "stderr"
      /\ last.f.pre[last.f.name] = NoInst
      /\ _checkLevel(last.f.lvl).ok
      /\ Fresh)
     => (/\ last.out.err = "" /\ last.out.res = last.f.opn
         /\ instances["stderr"][last.f.name] = last.out.res
         /\ obj[last.out.res].init)
  /\ \A i \in Ids :
       (obj[i].kind = "stderr" /\ obj[i].init) => TargetOf(obj[i]) = sysStderr

\* ---------------------------------------------------------------- C15
\* C15, as stated: a StreamHandler call that found the name absent at the
\* check outside the lock and finds it registered at the check under the
\* lock goes on with the registered instance: the step raises nothing and
\* creates no instance.
C15_RecheckReturnsRegistered ==
  [][\A t \in Threads :
       (/\ pc[t] = "s_lock" /\ pc'[t] # "s_lock"
        /\ Has("stream", frame[t].name))
       => (/\ pc'[t] = "init"
           /\ frame'[t].inst = instances["stream"][frame[t].name]
           /\ obj' = obj)
    ]_vars

\* ---------------------------------------------------------------- C16
\* instance i has been initialised: its level is set, it is not closed
\* before any close(), and its stream or file name is bound
Initialised(i) ==
  /\ obj[i].init
  /\ obj[i].level # NoLevel
  /\ obj[i].closed # "unset"
  /\ obj[i].kind = "stream" => obj[i].stream = "open"
  /\ obj[i].kind = "file" => obj[i].path # ""

\* C16, as stated: every instance a call has returned and every instance
\* registered under a name has been initialised.
C16_NoUninitialisedVisible ==
  \A k \in Kinds, n \in Names :
    /\ Has(k, n) => Initialised(instances[k][n])
    /\ \A i \in returned[k][n] : Initialised(i)

\* ---------------------------------------------------------------- C17
\* C17, as stated: the level of every registered instance is set, and the
\* level of an instance a call has just created is the checked value of the
\* call's level argument.
C17_StoredLevelIsChecked ==
  /\ \A k \in Kinds, n \in Names :
       Has(k, n) => obj[instances[k][n]].level # NoLevel
  /\ (/\ last.f.op = "get" /\ last.out.err = ""
      /\ last.out.res = last.f.opn /\ Fresh)
     => (/\ _checkLevel(last.f.lvl).ok
         /\ obj[last.out.res].level = _checkLevel(last.f.lvl).v)

\* ---------------------------------------------------------------- C18
\* C18: in a sequential history a call for a registered name, whatever its
\* other arguments, raises nothing and returns the registered instance; the
\* instance, with its level, stream, closed flag and handlers, the map of
\* its class and _handlerList are as they were when the call began.
C18_ExistingReturnedUnchanged ==
  (/\ last.f.op = "get" /\ last.f.pre[last.f.name] # NoInst /\ Fresh)
  => /\ last.out.err = ""
     /\ last.out.res = last.f.pre[last.f.name]
     /\ obj[last.out.res] = last.f.preObj
     /\ instances[last.f.kind] = last.f.pre
     /\ handlerList = last.f.preList

\* a logger with an attached handler was asked for again with a level
\* argument that is not its level
C18_Witness ==
  /\ last.f.op = "get" /\ last.f.kind = "logger" /\ Fresh
  /\ last.f.pre[last.f.name] # NoInst
  /\ last.out.res = last.f.pre[last.f.name]
  /\ Len(obj[last.out.res].handlers) > 0
  /\ LoggerCheckLevel(last.f.lvl) # LevelOk(obj[last.out.res].level)

\* ---------------------------------------------------------------- C19
\* C19, as stated: there is one lock that is held at every change of a
\* map and of _handlerList.
C19_OneLockForAllChanges == heldAll # {}

\* ---------------------------------------------------------------- C21
\* C21, as stated: a step of clearInstances of class k leaves the map of
\* every other class as it was and leaves in _handlerList the weak
\* reference of every instance of another class, so that an instance that
\* is registered after the step and had its reference in the list has it
\* still.
C21_ClearOnlyOwnKind ==
  [][\A k \in SinkKinds :
       (ops' = ops + 1 /\ last'.f.op = "clear" /\ last'.f.kind = k)
       => /\ \A j \in Kinds \ {k} : instances'[j] = instances[j]
          /\ \A i \in Ids :
               (InSeq(i, handlerList) /\ obj[i].kind # k)
               => InSeq(i, handlerList')
          /\ \A j \in Kinds, n \in Names :
               (/\ instances'[j][n] # NoInst
                /\ InSeq(instances'[j][n], handlerList))
               => InSeq(instances'[j][n], handlerList')
    ]_vars

\* ---------------------------------------------------------------- C22
\* the number of weak references to instance i in _handlerList
Handles(i) == Cardinality({j \in 1..Len(handlerList) : handlerList[j] = i})

\* C22: with calls of Handler, clearInstances and countInstances
\* interleaving freely, the lock of the class is held from the check to
\* the insertion; of the instances returned for one name since the last
\* clearInstances at most one was created since that clearInstances, and it
\* is the one registered under the name; and every registered instance has
\* exactly one weak reference in _handlerList.
C22_BaseCriticalSection ==
  /\ \A t \in Threads :
       pc[t] \in {"b_addref", "b_store"} /\ frame[t].rpc = "b_store"
         => lock["base"] = t
  /\ \A n \in Names :
       /\ Cardinality(returned["base"][n] \ preClear["base"]) <= 1
       /\ returned["base"][n] \ preClear["base"] \subseteq {instances["base"][n]}
       /\ Has("base", n) => Handles(instances["base"][n]) = 1

\* a call completed with the instance that another call, still in
\* progress, also obtained for the same name, after a clearInstances
C22_Witness ==
  /\ last.f.op = "get" /\ last.f.kind = "base" /\ last.out.res # NoInst
  /\ cleared["base"]
  /\ instances["base"][last.f.name] = last.out.res
  /\ \E t \in Threads :
       /\ pc[t] = "init" /\ frame[t].name = last.f.name
       /\ frame[t].inst = last.out.res

====
